---------------------------- MODULE Spec2Model ----------------------------
(***************************************************************************)
(* A model of the widget layer of masonry-rs:                              *)
(*   - WidgetId allocation          (src/src/widget/widget.rs)             *)
(*   - Widget::get_child_at_pos     (src/src/widget/widget.rs)             *)
(*   - Label / RawLabel / LabelText (src/widget-cruncher/.../label.rs)     *)
(* The specifications share the variables: SpecIds (the id allocator),     *)
(* SpecHit (hit testing), Spec (the Label adapter), SpecRaw and            *)
(* SpecRawLayout (a RawLabel on its own) and SpecFrame (a RawLabel driven  *)
(* by a pod, frame after frame).  Each specification keeps the variables   *)
(* of the others at their initial values.                                  *)
(***************************************************************************)
EXTENDS Integers, Sequences, FiniteSets, TLC

VARIABLES
    WIDGET_ID_COUNTER,  \* the u64 held by the static Counter of WidgetId::next
    issued,             \* ghost: the ids returned by next(), in call order
    reserved_ids,       \* ghost: the <<raw, id>> pairs returned by reserved(raw)
    widgets,            \* the widget tree: node -> [layout_rect, children]
    hit,                \* the last get_child_at_pos call on the tree as it is now
    text,               \* Label.text: the LabelText (LabelText::Static)
    current_text,       \* Label.current_text
    text_should_be_updated, \* Label.text_should_be_updated
    label,              \* Label.label, or a RawLabel used on its own
    ctx,                \* what the last handler call did through its context
    resolve_calls,      \* ghost: resolve() calls made on the current LabelText
    notified,           \* ghost: "never" (no set_text yet), "unnotified" (no
                        \* lifecycle notification since the last set_text), "notified"
    disabled_arg,       \* ghost: the argument of the last DisabledChanged
    last_text,          \* ghost: the string last given to Label::new or set_text
    last_color,         \* ghost: the colour last passed to set_text_color, or
                        \* "TEXT_COLOR" (the theme default) if none was
    frame               \* the frame a widget pod drives its widget through

idVars == <<WIDGET_ID_COUNTER, issued, reserved_ids>>

hitVars == <<widgets, hit>>

adapterVars ==
    <<text, current_text, text_should_be_updated, resolve_calls, notified, last_text>>

labelVars == <<adapterVars, label, ctx, disabled_arg, last_color>>

vars == <<idVars, hitVars, labelVars, frame>>

-----------------------------------------------------------------------------
(***************************************************************************)
(* 64-bit unsigned integers.  A u64 is a tuple of four 16-bit limbs, most  *)
(* significant first, so that u64::MAX and the wrap at 2^64 keep their     *)
(* real width.                                                             *)
(***************************************************************************)

\* u16::MAX: the largest value of the `raw: u16` parameter of reserved().
U16Max == 65535

LimbBase == U16Max + 1

\* u64::max_value()
U64Max == <<U16Max, U16Max, U16Max, U16Max>>

U64Zero == <<0, 0, 0, 0>>

\* `raw as u64`
U64FromU16(raw) == <<0, 0, 0, raw>>

\* a < b on u64
U64Lt(a, b) ==
    \E i \in 1..4 : /\ a[i] < b[i]
                    /\ \A j \in 1..(i - 1) : a[j] = b[j]

U64Le(a, b) == a = b \/ U64Lt(a, b)

\* a + 1, wrapping at 2^64 (AtomicU64::fetch_add wraps on overflow)
U64Inc(a) ==
    IF a[4] < U16Max THEN <<a[1], a[2], a[3], a[4] + 1>>
    ELSE IF a[3] < U16Max THEN <<a[1], a[2], a[3] + 1, 0>>
    ELSE IF a[2] < U16Max THEN <<a[1], a[2] + 1, 0, 0>>
    ELSE IF a[1] < U16Max THEN <<a[1] + 1, 0, 0, 0>>
    ELSE U64Zero

\* a - 1, wrapping below zero
U64Dec(a) ==
    IF a[4] > 0 THEN <<a[1], a[2], a[3], a[4] - 1>>
    ELSE IF a[3] > 0 THEN <<a[1], a[2], a[3] - 1, U16Max>>
    ELSE IF a[2] > 0 THEN <<a[1], a[2] - 1, U16Max, U16Max>>
    ELSE IF a[1] > 0 THEN <<a[1] - 1, U16Max, U16Max, U16Max>>
    ELSE U64Max

\* a - b on u64 where b < 2^16 (b = <<0, 0, 0, b[4]>>): borrow from the upper limbs
U64Sub(a, b) ==
    IF a[4] >= b[4] THEN <<a[1], a[2], a[3], a[4] - b[4]>>
    ELSE LET hi == U64Dec(<<0, a[1], a[2], a[3]>>)
         IN  <<hi[2], hi[3], hi[4], a[4] + LimbBase - b[4]>>

-----------------------------------------------------------------------------
(***************************************************************************)
(* The identity allocator.                                                 *)
(***************************************************************************)

\* Bounds of the allocator's model.
MaxNextCalls == 3       \* next() calls in one run
MaxReserved == 3        \* reserved() results kept in one run
RawLow == 1             \* reserved() is called with raw in 0..RawLow ...
RawHigh == 1            \* ... and in (u16::MAX - RawHigh)..u16::MAX
StartGap == 3           \* see StartCounters

RawInputs == (0..RawLow) \cup ((U16Max - RawHigh)..U16Max)

\* The least reserved id: u64::MAX - u16::MAX = 2^64 - 65536.
ReservedFloor == <<U16Max, U16Max, U16Max, 0>>

\* Counter::new(): the counter starts at 1.
Counter_new == <<0, 0, 0, 1>>

\* The counter values a run starts from: a fresh process (Counter::new), and a
\* process that has already issued all but the last few of the ids below the
\* reserved range (the counter is then ReservedFloor - k, 1 <= k <= StartGap).
StartCounters ==
    {Counter_new} \cup {<<U16Max, U16Max, U16Max - 1, LimbBase - k>> : k \in 1..StartGap}

\* Counter::next_nonzero(): fetch_add(1) returns the old value and stores old + 1.
Counter_next_nonzero(c) == [id |-> c, counter |-> U64Inc(c)]

\* The number of ids next() has returned since the process started: the counter
\* started at 1 and every call added 1.
Generated == U64Dec(WIDGET_ID_COUNTER)

\* A mutation of WidgetId_next: the counter is a local, recreated on every call.
WidgetId_next_LocalCounter ==
    /\ Len(issued) < MaxNextCalls
    /\ LET r == Counter_next_nonzero(Counter_new)
       IN  /\ issued' = Append(issued, r.id)
           /\ WIDGET_ID_COUNTER' = WIDGET_ID_COUNTER
    /\ UNCHANGED <<reserved_ids, hitVars, labelVars, frame>>

\* WidgetId::next()
WidgetId_next ==
    /\ Len(issued) < MaxNextCalls
    /\ LET r == Counter_next_nonzero(WIDGET_ID_COUNTER)
       IN  /\ issued' = Append(issued, r.id)
           /\ WIDGET_ID_COUNTER' = r.counter
    /\ UNCHANGED <<reserved_ids, hitVars, labelVars, frame>>

\* A mutation of reserved_id: the raw value is counted up from the low end.
reserved_id_FromLowEnd(raw) == U64Inc(U64FromU16(raw))

\* The inner value of WidgetId::reserved(raw): u64::max_value() - raw as u64
reserved_id(raw) == U64Sub(U64Max, U64FromU16(raw))

\* WidgetId::reserved(raw)
WidgetId_reserved ==
    \E raw \in RawInputs :
        /\ Cardinality(reserved_ids \cup {<<raw, reserved_id(raw)>>}) <= MaxReserved
        /\ reserved_ids' = reserved_ids \cup {<<raw, reserved_id(raw)>>}
        /\ UNCHANGED <<WIDGET_ID_COUNTER, issued, hitVars, labelVars, frame>>

IdNext == WidgetId_next \/ WidgetId_reserved

\* C1: every id returned by WidgetId::next() is non-zero, and any two ids
\* returned by different calls are different.
C1_NextIdsDistinctNonZero ==
    /\ \A i \in 1..Len(issued) : issued[i] # U64Zero
    /\ \A i, j \in 1..Len(issued) : i # j => issued[i] # issued[j]

\* C1 witness: next() has been called at least three times.
C1_Witness == Len(issued) >= 3

\* C2: reserved(raw) has inner value u64::MAX - raw (limb by limb: the three
\* upper limbs are all ones and the lowest is 65535 - raw), is never zero, is
\* injective, and equals no id returned by next() while fewer than
\* 2^64 - 65536 ids have been generated.
C2_ReservedFromTopDisjoint ==
    /\ \A p \in reserved_ids :
          /\ p[2] = <<65535, 65535, 65535, 65535 - p[1]>>
          /\ p[2] # U64Zero
    /\ \A p, q \in reserved_ids : p[1] # q[1] => p[2] # q[2]
    /\ U64Lt(Generated, ReservedFloor) =>
          \A i \in 1..Len(issued) : \A raw \in RawInputs : issued[i] # reserved_id(raw)

\* C2 witness: ids have been generated right up to the reserved range (the next
\* call would return the least reserved id), and both ends of the raw range
\* have been reserved.
C2_Witness ==
    /\ WIDGET_ID_COUNTER = ReservedFloor
    /\ Len(issued) >= 2
    /\ \E p, q \in reserved_ids : p[1] = 0 /\ q[1] = U16Max

-----------------------------------------------------------------------------
(***************************************************************************)
(* Hit testing: Widget::get_child_at_pos.                                  *)
(* The tree has a root (node 0) with up to MaxChildren children (nodes     *)
(* 1..n, in children() order); the first child may itself have one child   *)
(* (node GrandChild), whose rectangle is in the first child's coordinates. *)
(***************************************************************************)

MaxChildren == 2        \* children of the root
MaxCoord == 2           \* rectangle edges and positions lie in 0..MaxCoord

Root == 0
GrandChild == MaxChildren + 1

\* The rectangles a layout pass computes: [x0, x1) x [0, 1), not empty.
Rects == {r \in [x0 : 0..MaxCoord, y0 : {0}, x1 : 0..MaxCoord, y1 : {1}] : r.x0 < r.x1}

Points == {[x |-> a, y |-> b] : a \in 0..MaxCoord, b \in 0..1}

\* Rect::ZERO, the layout rectangle of a widget that has not been laid out.
RectZero == [x0 |-> 0, y0 |-> 0, x1 |-> 0, y1 |-> 0]

\* Rect::contains(point): the rectangle is half-open.
Rect_contains(r, p) ==
    /\ p.x >= r.x0
    /\ p.x < r.x1
    /\ p.y >= r.y0
    /\ p.y < r.y1

\* Widget::children(): the direct children of node w, in traversal order.
children(w) == widgets[w].children

\* child.state().layout_rect(): the child's last-computed rectangle, in the
\* coordinates of its parent.
layout_rect(w) == widgets[w].layout_rect

\* The trees: n children of the root, the first with or without a child.
Trees ==
    {[w \in 0..GrandChild |->
        [layout_rect |-> RectZero,
         children |-> IF w = Root THEN [i \in 1..n |-> i]
                      ELSE IF w = 1 /\ g THEN <<GrandChild>>
                      ELSE <<>>]] : n \in 0..MaxChildren, g \in BOOLEAN}

\* The nodes that are in the tree.
Attached == {w \in 1..GrandChild : \E v \in 0..GrandChild :
                 \E i \in 1..Len(children(v)) : children(v)[i] = w}

HitNone == [called |-> FALSE, widget |-> Root, pos |-> [x |-> 0, y |-> 0], result |-> <<>>]

\* A root without children.
NoTree == [w \in 0..GrandChild |-> [layout_rect |-> RectZero, children |-> <<>>]]

\* A layout pass stores the rectangle it computed for child w (WidgetPod).
set_layout_rect ==
    \E w \in Attached : \E r \in Rects :
        /\ r # layout_rect(w)
        /\ widgets' = [widgets EXCEPT ![w].layout_rect = r]
        /\ hit' = HitNone
        /\ UNCHANGED <<idVars, labelVars, frame>>

\* Iterator::find over children(w) from index i: the first child whose
\* layout_rect contains pos, as <<child>>, or <<>> (None).
RECURSIVE find(_, _, _)
find(w, pos, i) ==
    IF i > Len(children(w)) THEN <<>>
    ELSE IF Rect_contains(layout_rect(children(w)[i]), pos) THEN <<children(w)[i]>>
    ELSE find(w, pos, i + 1)

\* A mutation of child_at_pos: the last matching child wins.
RECURSIVE find_last(_, _, _)
find_last(w, pos, i) ==
    IF i < 1 THEN <<>>
    ELSE IF Rect_contains(layout_rect(children(w)[i]), pos) THEN <<children(w)[i]>>
    ELSE find_last(w, pos, i - 1)

child_at_pos_LastWins(w, pos) == find_last(w, pos, Len(children(w)))

\* The value of Widget::get_child_at_pos(pos) on widget w.
child_at_pos(w, pos) == find(w, pos, 1)

\* Widget::get_child_at_pos(pos), called on the root or on its first child.
get_child_at_pos ==
    \E w \in {Root, 1} : \E pos \in Points :
        /\ w = Root \/ w \in Attached
        /\ hit' = [called |-> TRUE, widget |-> w, pos |-> pos,
                   result |-> child_at_pos(w, pos)]
        /\ UNCHANGED <<widgets, idVars, labelVars, frame>>

HitNext == set_layout_rect \/ get_child_at_pos

\* The indices of the children of hit.widget whose rectangle contains hit.pos.
HitMatches ==
    {i \in 1..Len(children(hit.widget)) :
        Rect_contains(layout_rect(children(hit.widget)[i]), hit.pos)}

\* C4: get_child_at_pos(pos) returns none exactly when no child's rectangle
\* contains pos; otherwise it returns the direct child with the least index in
\* children() whose rectangle contains pos (never a grandchild).
C4_FirstContainingChild ==
    hit.called =>
        /\ (hit.result = <<>>) <=> (HitMatches = {})
        /\ hit.result # <<>> =>
              \E i \in HitMatches :
                  /\ hit.result = <<children(hit.widget)[i]>>
                  /\ \A j \in HitMatches : i <= j

\* C4 witness: two children overlap at pos and the first one is returned.
C4_Witness ==
    /\ hit.called
    /\ hit.widget = Root
    /\ Cardinality(HitMatches) >= 2
    /\ hit.result = <<1>>

\* A hit test on the root at a point that only the grandchild's rectangle
\* contains returns none.
C4_WitnessNoDescent ==
    /\ hit.called
    /\ hit.widget = Root
    /\ GrandChild \in Attached
    /\ Rect_contains(layout_rect(GrandChild), hit.pos)
    /\ hit.result = <<>>

-----------------------------------------------------------------------------
(***************************************************************************)
(* The label widget: data.                                                 *)
(* An f64 is modelled by an integer; f64::INFINITY is a value above every  *)
(* finite one that the model computes.                                     *)
(***************************************************************************)

\* const LABEL_X_PADDING: f64 = 2.0
LABEL_X_PADDING == 2

\* f64::INFINITY
Infinity == 1000000

\* a - b and a + b on f64, b finite: infinity absorbs
FSub(a, b) == IF a = Infinity THEN Infinity ELSE a - b

FAdd(a, b) == IF a = Infinity THEN Infinity ELSE a + b

FMin(a, b) == IF a <= b THEN a ELSE b

FMax(a, b) == IF a >= b THEN a ELSE b

\* Bounds of the label's model.
MaxTextW == 2           \* the text engine measures widths 0..MaxTextW
MaxPosX == 3            \* pointer events have x in 0..MaxPosX, y in 0..1
MaxResolveCalls == 3    \* resolve() calls on one LabelText

\* The strings a label is given.
Strings == {"a", "b"}

\* enum LineBreaking
LineBreakings == {"WordWrap", "Clip", "Overflow"}

\* KeyOrValue<Color>: the theme keys, and the concrete colours callers pass.
UserColors == {"red", "blue"}

\* The measurements the text engine can report: the size of the text block
\* (one or two lines high) and the distance from its top to the first baseline.
Metrics ==
    {m \in [width : 0..MaxTextW, height : 1..2, first_baseline : 1..2] :
        m.first_baseline <= m.height}

BoxConstraints_new(min_w, min_h, max_w, max_h) ==
    [min |-> [width |-> min_w, height |-> min_h],
     max |-> [width |-> max_w, height |-> max_h]]

\* The box constraints a layout pass hands down (min <= max on both axes):
\* narrower than the padding, narrower than the padded text, tight, unbounded,
\* and with a minimum above the text's size.
BoxConstraintsSet ==
    {BoxConstraints_new(0, 0, 3, 1),
     BoxConstraints_new(0, 0, 5, Infinity),
     BoxConstraints_new(0, 0, Infinity, Infinity),
     BoxConstraints_new(5, 2, 5, 2),
     BoxConstraints_new(7, 3, 8, Infinity),
     BoxConstraints_new(0, 2, 6, 2)}

\* The sizes PaintCtx::size() reports.
PaintSizes == {[width |-> 3, height |-> 1], [width |-> 5, height |-> 2]}

\* Pointer events, with their position, and one event of another kind.
Events ==
    {[kind |-> k, pos |-> [x |-> a, y |-> b]] :
        k \in {"MouseUp", "MouseMove"}, a \in 0..MaxPosX, b \in 0..1} \cup
    {[kind |-> "MouseDown", pos |-> [x |-> LABEL_X_PADDING, y |-> 0]]}

\* Life cycle events.
LifeCycles ==
    {[kind |-> "DisabledChanged", disabled |-> d] : d \in BOOLEAN} \cup
    {[kind |-> "WidgetAdded", disabled |-> FALSE]}

\* What a handler call did through its context: nothing yet.
CtxNone ==
    [op |-> "none", arg |-> <<>>, ret |-> <<>>, warned |-> FALSE, render |-> <<>>,
     cursor |-> <<>>, commands |-> <<>>, request_layout |-> 0, baseline |-> <<>>,
     panicked |-> FALSE]

\* The frame of a pod whose widget has not been driven yet.
FrameNone ==
    [phase |-> "Idle", needs_layout |-> FALSE, needs_paint |-> FALSE,
     layouts |-> 0, paints |-> 0]

-----------------------------------------------------------------------------
(***************************************************************************)
(* The collaborators of the label: the text layout engine, the box         *)
(* constraints and the contexts.                                           *)
(***************************************************************************)

\* The points of a text, in text coordinates, that lie over an embedded link:
\* the text "b" starts with a link two units wide on its first line.
TextLinks(s) ==
    IF s = "b" THEN {[x |-> a, y |-> 0] : a \in 0..1} ELSE {}

\* TextLayout::new()
TextLayout_new ==
    [text |-> "", wrap_width |-> Infinity, text_color |-> "TEXT_COLOR",
     metrics |-> [width |-> 0, height |-> 0, first_baseline |-> 0]]

TextLayout_set_text(layout, s) == [layout EXCEPT !.text = s]

TextLayout_set_text_color(layout, color) == [layout EXCEPT !.text_color = color]

TextLayout_set_wrap_width(layout, width) == [layout EXCEPT !.wrap_width = width]

\* TextLayout::rebuild_if_needed: the engine measures the text; m is what it reports.
TextLayout_rebuild_if_needed(layout, m) == [layout EXCEPT !.metrics = m]

TextLayout_layout_metrics(layout) == layout.metrics

\* TextLayout::link_for_pos(pos): <<link>> (Some) or <<>> (None)
TextLayout_link_for_pos(layout, pos) ==
    IF pos \in TextLinks(layout.text) THEN <<[text |-> layout.text, at |-> pos]>> ELSE <<>>

\* TextLayout::draw(ctx, origin): one draw-text operation on the render surface
TextLayout_draw(layout, origin) ==
    <<[op |-> "draw_text", text |-> layout.text, origin |-> origin]>>

\* BoxConstraints::constrain(size): the size clamped to [min, max] on each axis
BoxConstraints_constrain(bc, size) ==
    [width |-> FMin(FMax(size.width, bc.min.width), bc.max.width),
     height |-> FMin(FMax(size.height, bc.min.height), bc.max.height)]

\* Size::to_rect()
Size_to_rect(size) == [x0 |-> 0, y0 |-> 0, x1 |-> size.width, y1 |-> size.height]

-----------------------------------------------------------------------------
(***************************************************************************)
(* LabelText and Static.                                                   *)
(***************************************************************************)

\* Static::new(s), which LabelText::from(s) wraps in LabelText::Static
Static_new(s) == [string |-> s, resolved |-> FALSE]

\* A mutation of Static_resolve: the flag is returned instead of its negation.
Static_resolve_ReturnsFlag(self) ==
    [self |-> [self EXCEPT !.resolved = TRUE], ret |-> self.resolved]

\* Static::resolve(&mut self) -> bool
Static_resolve(self) ==
    LET is_first_call == ~self.resolved
    IN  [self |-> [self EXCEPT !.resolved = TRUE], ret |-> is_first_call]

\* LabelText::display_text(&self)
LabelText_display_text(self) == self.string

\* LabelText::resolve(&mut self, env): the only variant is Static
LabelText_resolve(self) == Static_resolve(self)

-----------------------------------------------------------------------------
(***************************************************************************)
(* RawLabel.  Each method is an operator from the widget (self) and the    *)
(* call's inputs to the widget after the call and what the call did        *)
(* through its context.                                                    *)
(***************************************************************************)

\* RawLabel::new()
RawLabel_new ==
    [layout |-> TextLayout_new,
     line_break_mode |-> "Overflow",
     disabled |-> FALSE,
     default_text_color |-> "TEXT_COLOR"]

\* RawLabel::set_text(new_text)
RawLabel_set_text(self, new_text) ==
    [self EXCEPT !.layout = TextLayout_set_text(@, new_text)]

\* RawLabel::set_text_color(color)
RawLabel_set_text_color(self, color) ==
    [self EXCEPT !.layout = IF ~self.disabled
                             THEN TextLayout_set_text_color(@, color)
                             ELSE @,
                 !.default_text_color = color]

\* RawLabel::set_line_break_mode(mode)
RawLabel_set_line_break_mode(self, mode) == [self EXCEPT !.line_break_mode = mode]

\* RawLabel::draw_at(ctx, origin)
RawLabel_draw_at(self, origin) == TextLayout_draw(self.layout, origin)

\* RawLabel::baseline_offset()
RawLabel_baseline_offset(self) ==
    LET text_metrics == TextLayout_layout_metrics(self.layout)
    IN  text_metrics.height - text_metrics.first_baseline

\* event.pos - Vec2::new(LABEL_X_PADDING, 0.0)
PaddedPos(pos) == [x |-> pos.x - LABEL_X_PADDING, y |-> pos.y - 0]

\* A mutation of RawLabel_on_event: the event's position is looked up as it
\* is, without taking the padding off.
RawLabel_on_event_Unpadded(self, event) ==
    LET pos == event.pos
        link == TextLayout_link_for_pos(self.layout, pos)
        quiet == [self |-> self, cursor |-> <<>>, commands |-> <<>>, panicked |-> FALSE]
    IN  CASE event.kind = "MouseUp" ->
                 IF link # <<>>
                 THEN [quiet EXCEPT !.panicked = TRUE]
                 ELSE quiet
          [] event.kind = "MouseMove" ->
                 IF link # <<>>
                 THEN [quiet EXCEPT !.cursor = <<"set_cursor(Pointer)">>]
                 ELSE [quiet EXCEPT !.cursor = <<"clear_cursor">>]
          [] OTHER -> quiet

\* <RawLabel as Widget>::on_event(ctx, event, env)
RawLabel_on_event(self, event) ==
    LET pos == PaddedPos(event.pos)
        link == TextLayout_link_for_pos(self.layout, pos)
        quiet == [self |-> self, cursor |-> <<>>, commands |-> <<>>, panicked |-> FALSE]
    IN  CASE event.kind = "MouseUp" ->
                 IF link # <<>>
                 THEN [quiet EXCEPT !.panicked = TRUE]     \* todo!()
                 ELSE quiet
          [] event.kind = "MouseMove" ->
                 IF link # <<>>
                 THEN [quiet EXCEPT !.cursor = <<"set_cursor(Pointer)">>]
                 ELSE [quiet EXCEPT !.cursor = <<"clear_cursor">>]
          [] OTHER -> quiet

\* A mutation of RawLabel_lifecycle: re-enabling restores the theme's colour.
RawLabel_lifecycle_ThemeColor(self, event) ==
    IF event.kind = "DisabledChanged"
    THEN LET color == IF event.disabled THEN "DISABLED_TEXT_COLOR"
                      ELSE "TEXT_COLOR"
         IN  [self |-> [self EXCEPT !.layout = TextLayout_set_text_color(@, color)],
              request_layout |-> 1]
    ELSE [self |-> self, request_layout |-> 0]

\* <RawLabel as Widget>::lifecycle(ctx, event, env)
RawLabel_lifecycle(self, event) ==
    IF event.kind = "DisabledChanged"
    THEN LET color == IF event.disabled THEN "DISABLED_TEXT_COLOR"
                      ELSE self.default_text_color
         IN  [self |-> [self EXCEPT !.layout = TextLayout_set_text_color(@, color)],
              request_layout |-> 1]
    ELSE [self |-> self, request_layout |-> 0]

\* A mutation of RawLabel_layout: the padding is taken off the wrap width once.
RawLabel_layout_PaddingOnce(self, bc, m) ==
    LET width == IF self.line_break_mode = "WordWrap"
                 THEN FSub(bc.max.width, LABEL_X_PADDING)
                 ELSE Infinity
        layout == TextLayout_rebuild_if_needed(
                      TextLayout_set_wrap_width(self.layout, width), m)
        text_metrics == TextLayout_layout_metrics(layout)
    IN  [self |-> [self EXCEPT !.layout = layout],
         baseline |-> text_metrics.height - text_metrics.first_baseline,
         size |-> BoxConstraints_constrain(bc,
                      [width |-> FAdd(text_metrics.width, 2 * LABEL_X_PADDING),
                       height |-> text_metrics.height])]

\* A mutation of RawLabel_layout: the padded text size is returned as it is.
RawLabel_layout_Unconstrained(self, bc, m) ==
    LET width == IF self.line_break_mode = "WordWrap"
                 THEN FSub(bc.max.width, LABEL_X_PADDING * 2)
                 ELSE Infinity
        layout == TextLayout_rebuild_if_needed(
                      TextLayout_set_wrap_width(self.layout, width), m)
        text_metrics == TextLayout_layout_metrics(layout)
    IN  [self |-> [self EXCEPT !.layout = layout],
         baseline |-> text_metrics.height - text_metrics.first_baseline,
         size |-> [width |-> FAdd(text_metrics.width, 2 * LABEL_X_PADDING),
                   height |-> text_metrics.height]]

\* A mutation of RawLabel_layout: the baseline offset is taken from the
\* constrained size that layout returns.
RawLabel_layout_BaselineFromSize(self, bc, m) ==
    LET width == IF self.line_break_mode = "WordWrap"
                 THEN FSub(bc.max.width, LABEL_X_PADDING * 2)
                 ELSE Infinity
        layout == TextLayout_rebuild_if_needed(
                      TextLayout_set_wrap_width(self.layout, width), m)
        text_metrics == TextLayout_layout_metrics(layout)
        size == BoxConstraints_constrain(bc,
                    [width |-> FAdd(text_metrics.width, 2 * LABEL_X_PADDING),
                     height |-> text_metrics.height])
    IN  [self |-> [self EXCEPT !.layout = layout],
         baseline |-> FSub(size.height, text_metrics.first_baseline),
         size |-> size]

\* <RawLabel as Widget>::layout(ctx, bc, env) -> Size.  m is what the text
\* engine measures in rebuild_if_needed.  bc.debug_check only logs.
RawLabel_layout(self, bc, m) ==
    LET width == IF self.line_break_mode = "WordWrap"
                 THEN FSub(bc.max.width, LABEL_X_PADDING * 2)
                 ELSE Infinity
        layout == TextLayout_rebuild_if_needed(
                      TextLayout_set_wrap_width(self.layout, width), m)
        text_metrics == TextLayout_layout_metrics(layout)
    IN  [self |-> [self EXCEPT !.layout = layout],
         baseline |-> text_metrics.height - text_metrics.first_baseline,
         size |-> BoxConstraints_constrain(bc,
                      [width |-> FAdd(text_metrics.width, 2 * LABEL_X_PADDING),
                       height |-> text_metrics.height])]

\* A mutation of RawLabel_paint: the clip is issued after the text is drawn.
RawLabel_paint_ClipLate(self, label_size) ==
    LET origin == [x |-> LABEL_X_PADDING, y |-> 0]
    IN  RawLabel_draw_at(self, origin) \o
        (IF self.line_break_mode = "Clip"
         THEN <<[op |-> "clip", rect |-> Size_to_rect(label_size)]>>
         ELSE <<>>)

\* <RawLabel as Widget>::paint(ctx, env): the operations issued on the render
\* surface, in order.  label_size is ctx.size().
RawLabel_paint(self, label_size) ==
    LET origin == [x |-> LABEL_X_PADDING, y |-> 0]
    IN  (IF self.line_break_mode = "Clip"
         THEN <<[op |-> "clip", rect |-> Size_to_rect(label_size)]>>
         ELSE <<>>) \o
        RawLabel_draw_at(self, origin)

(***************************************************************************)
(* The calls on a RawLabel used on its own (Label::raw()).  A panic ends   *)
(* the run.                                                                *)
(***************************************************************************)

RawLabelSetText ==
    \E s \in Strings :
        /\ ~ctx.panicked
        /\ s # label.layout.text
        /\ label' = RawLabel_set_text(label, s)
        /\ ctx' = [CtxNone EXCEPT !.op = "RawLabel::set_text"]
        /\ UNCHANGED <<adapterVars, disabled_arg, last_color, idVars, hitVars, frame>>

RawLabelSetTextColor ==
    \E color \in UserColors :
        /\ ~ctx.panicked
        /\ label' = RawLabel_set_text_color(label, color)
        /\ ctx' = [CtxNone EXCEPT !.op = "RawLabel::set_text_color", !.arg = <<color>>]
        /\ last_color' = color
        /\ UNCHANGED <<adapterVars, disabled_arg, idVars, hitVars, frame>>

RawLabelSetLineBreakMode ==
    \E mode \in LineBreakings :
        /\ ~ctx.panicked
        /\ mode # label.line_break_mode
        /\ label' = RawLabel_set_line_break_mode(label, mode)
        /\ ctx' = [CtxNone EXCEPT !.op = "RawLabel::set_line_break_mode"]
        /\ UNCHANGED <<adapterVars, disabled_arg, last_color, idVars, hitVars, frame>>

RawLabelOnEvent ==
    \E event \in Events :
        LET r == RawLabel_on_event(label, event)
        IN  /\ ~ctx.panicked
            /\ label' = r.self
            /\ ctx' = [CtxNone EXCEPT !.op = "RawLabel::on_event", !.arg = <<event>>,
                                      !.cursor = r.cursor, !.commands = r.commands,
                                      !.panicked = r.panicked]
            /\ UNCHANGED <<adapterVars, disabled_arg, last_color, idVars, hitVars, frame>>

RawLabelLifecycle ==
    \E event \in LifeCycles :
        LET r == RawLabel_lifecycle(label, event)
        IN  /\ ~ctx.panicked
            /\ label' = r.self
            /\ ctx' = [CtxNone EXCEPT !.op = "RawLabel::lifecycle", !.arg = <<event>>,
                                      !.request_layout = r.request_layout]
            /\ disabled_arg' = IF event.kind = "DisabledChanged" THEN event.disabled
                               ELSE disabled_arg
            /\ UNCHANGED <<adapterVars, last_color, idVars, hitVars, frame>>

RawLabelLayout ==
    \E bc \in BoxConstraintsSet : \E m \in Metrics :
        LET r == RawLabel_layout(label, bc, m)
        IN  /\ ~ctx.panicked
            /\ label' = r.self
            /\ ctx' = [CtxNone EXCEPT !.op = "RawLabel::layout", !.arg = <<bc>>,
                                      !.ret = <<r.size>>, !.baseline = <<r.baseline>>]
            /\ UNCHANGED <<adapterVars, disabled_arg, last_color, idVars, hitVars, frame>>

RawLabelPaint ==
    \E label_size \in PaintSizes :
        /\ ~ctx.panicked
        /\ ctx' = [CtxNone EXCEPT !.op = "RawLabel::paint", !.arg = <<label_size>>,
                                  !.render = RawLabel_paint(label, label_size)]
        /\ UNCHANGED <<label, adapterVars, disabled_arg, last_color, idVars, hitVars, frame>>

\* RawLabel::baseline_offset(), called once the text has been laid out.
RawLabelBaselineOffset ==
    /\ ~ctx.panicked
    /\ label.layout.metrics.height > 0
    /\ ctx' = [CtxNone EXCEPT !.op = "RawLabel::baseline_offset",
                              !.ret = <<RawLabel_baseline_offset(label)>>]
    /\ UNCHANGED <<label, adapterVars, disabled_arg, last_color, idVars, hitVars, frame>>

\* The calls that handle events and life cycle notifications.
RawNext ==
    \/ RawLabelSetText
    \/ RawLabelSetTextColor
    \/ RawLabelOnEvent
    \/ RawLabelLifecycle

\* The calls of the layout and paint passes.
RawLayoutNext ==
    \/ RawLabelSetText
    \/ RawLabelSetLineBreakMode
    \/ RawLabelLayout
    \/ RawLabelBaselineOffset
    \/ RawLabelPaint

-----------------------------------------------------------------------------
(***************************************************************************)
(* The frame: a widget pod drives its widget, here a RawLabel, through the *)
(* passes of one frame after another.  The pod keeps the flags that the    *)
(* widget's requests set, and runs the layout and paint passes that the    *)
(* flags ask for.                                                          *)
(***************************************************************************)

\* The passes of a frame, in their order; a frame is Idle between passes.
PassRank(phase) ==
    CASE phase = "Idle" -> 0
      [] phase = "Event" -> 1
      [] phase = "Lifecycle" -> 2
      [] phase = "Layout" -> 3
      [] phase = "Paint" -> 4

\* A pod that has just been given its widget: both passes are pending.
Pod_new == [FrameNone EXCEPT !.needs_layout = TRUE, !.needs_paint = TRUE]

\* A mutation of Pod_may_run: the pod runs any pass at any time.
Pod_may_run_Always(f, pass) == pass \in {"Event", "Lifecycle", "Layout", "Paint"}

\* Whether the pod, in frame state f, runs the pass on its widget: event
\* passes come first, then life cycle passes, then one layout pass if the
\* node is flagged for it, then one paint pass if the node is flagged for it.
Pod_may_run(f, pass) ==
    CASE pass = "Event" -> f.phase \in {"Idle", "Event"}
      [] pass = "Lifecycle" -> f.phase \in {"Idle", "Event", "Lifecycle"}
      [] pass = "Layout" -> f.needs_layout /\ f.phase \in {"Idle", "Event", "Lifecycle"}
      [] pass = "Paint" -> /\ f.needs_paint /\ ~f.needs_layout
                           /\ f.phase \in {"Idle", "Event", "Lifecycle", "Layout"}

\* The frame state after a pass in which the widget requested layout
\* request_layout times.
Pod_after(f, pass, request_layout) ==
    [phase |-> pass,
     needs_layout |-> IF pass = "Layout" THEN FALSE
                      ELSE f.needs_layout \/ request_layout > 0,
     needs_paint |-> IF pass = "Paint" THEN FALSE
                     ELSE f.needs_paint \/ pass = "Layout",
     layouts |-> f.layouts + (IF pass = "Layout" THEN 1 ELSE 0),
     paints |-> f.paints + (IF pass = "Paint" THEN 1 ELSE 0)]

FrameEvent ==
    \E event \in Events :
        LET r == RawLabel_on_event(label, event)
        IN  /\ ~ctx.panicked
            /\ Pod_may_run(frame, "Event")
            /\ label' = r.self
            /\ ctx' = [CtxNone EXCEPT !.op = "RawLabel::on_event", !.arg = <<event>>,
                                      !.cursor = r.cursor, !.commands = r.commands,
                                      !.panicked = r.panicked]
            /\ frame' = Pod_after(frame, "Event", 0)
            /\ UNCHANGED <<adapterVars, disabled_arg, last_color, idVars, hitVars>>

FrameLifecycle ==
    \E event \in LifeCycles :
        LET r == RawLabel_lifecycle(label, event)
        IN  /\ ~ctx.panicked
            /\ Pod_may_run(frame, "Lifecycle")
            /\ label' = r.self
            /\ ctx' = [CtxNone EXCEPT !.op = "RawLabel::lifecycle", !.arg = <<event>>,
                                      !.request_layout = r.request_layout]
            /\ frame' = Pod_after(frame, "Lifecycle", r.request_layout)
            /\ disabled_arg' = IF event.kind = "DisabledChanged" THEN event.disabled
                               ELSE disabled_arg
            /\ UNCHANGED <<adapterVars, last_color, idVars, hitVars>>

FrameLayout ==
    \E bc \in BoxConstraintsSet : \E m \in Metrics :
        LET r == RawLabel_layout(label, bc, m)
        IN  /\ ~ctx.panicked
            /\ Pod_may_run(frame, "Layout")
            /\ label' = r.self
            /\ ctx' = [CtxNone EXCEPT !.op = "RawLabel::layout", !.arg = <<bc>>,
                                      !.ret = <<r.size>>, !.baseline = <<r.baseline>>]
            /\ frame' = Pod_after(frame, "Layout", 0)
            /\ UNCHANGED <<adapterVars, disabled_arg, last_color, idVars, hitVars>>

FramePaint ==
    \E label_size \in PaintSizes :
        /\ ~ctx.panicked
        /\ Pod_may_run(frame, "Paint")
        /\ ctx' = [CtxNone EXCEPT !.op = "RawLabel::paint", !.arg = <<label_size>>,
                                  !.render = RawLabel_paint(label, label_size)]
        /\ frame' = Pod_after(frame, "Paint", 0)
        /\ UNCHANGED <<label, adapterVars, disabled_arg, last_color, idVars, hitVars>>

\* The frame ends once the pending passes have run; the next one starts Idle.
FrameEnd ==
    /\ ~ctx.panicked
    /\ frame.phase # "Idle"
    /\ ~frame.needs_layout
    /\ ~frame.needs_paint
    /\ frame' = FrameNone
    /\ UNCHANGED <<labelVars, idVars, hitVars>>

FrameNext ==
    \/ FrameEvent
    \/ FrameLifecycle
    \/ FrameLayout
    \/ FramePaint
    \/ FrameEnd

-----------------------------------------------------------------------------
(***************************************************************************)
(* Label: the adapter around a RawLabel.  self is the record of its        *)
(* fields.                                                                 *)
(***************************************************************************)

\* A mutation of Label_new: the label is constructed with the mark set.
Label_new_Marked(s) ==
    LET text_0 == Static_new(s)
        current_text_0 == LabelText_display_text(text_0)
        label_0 == RawLabel_set_text(RawLabel_new, current_text_0)
    IN  [text |-> text_0,
         current_text |-> current_text_0,
         label |-> label_0,
         text_should_be_updated |-> TRUE]

\* Label::new(text), text a string (LabelText::from wraps it in Static::new)
Label_new(s) ==
    LET text_0 == Static_new(s)
        current_text_0 == LabelText_display_text(text_0)
        label_0 == RawLabel_set_text(RawLabel_new, current_text_0)
    IN  [text |-> text_0,
         current_text |-> current_text_0,
         label |-> label_0,
         text_should_be_updated |-> FALSE]

\* Label::with_line_break_mode(mode)
Label_with_line_break_mode(self, mode) ==
    [self EXCEPT !.label = RawLabel_set_line_break_mode(@, mode)]

\* A mutation of Label_text: the string on display is returned.
Label_text_Displayed(self) == self.current_text

\* Label::text()
Label_text(self) == LabelText_display_text(self.text)

\* A mutation of Label_set_text: the text is stored but not marked.
Label_set_text_Unmarked(self, s) == [self EXCEPT !.text = Static_new(s)]

\* Label::set_text(text)
Label_set_text(self, s) ==
    [self EXCEPT !.text = Static_new(s),
                 !.text_should_be_updated = TRUE]

\* A mutation of Label_on_event: the event is forwarded to the inner RawLabel.
Label_on_event_Forwarded(self, event) ==
    LET r == RawLabel_on_event(self.label, event)
    IN  [self |-> [self EXCEPT !.label = r.self], cursor |-> r.cursor,
         commands |-> r.commands, panicked |-> r.panicked]

\* <Label as Widget>::on_event(_ctx, _event, _env) {}
Label_on_event(self, event) ==
    [self |-> self, cursor |-> <<>>, commands |-> <<>>, panicked |-> FALSE]

\* <Label as Widget>::lifecycle(ctx, event, env)
Label_lifecycle(self, event) ==
    LET r == RawLabel_lifecycle(self.label, event)
    IN  [self |-> [self EXCEPT !.label = r.self], request_layout |-> r.request_layout]

\* <Label as Widget>::layout(ctx, bc, env)
Label_layout(self, bc, m) ==
    LET r == RawLabel_layout(self.label, bc, m)
    IN  [self |-> [self EXCEPT !.label = r.self], baseline |-> r.baseline, size |-> r.size]

\* <Label as Widget>::paint(ctx, env): whether the stale-text warning is
\* logged, and the operations issued on the render surface.
Label_paint(self, label_size) ==
    [warned |-> self.text_should_be_updated,
     render |-> RawLabel_paint(self.label, label_size)]

\* The Label held by the variables.
LabelSelf ==
    [text |-> text, current_text |-> current_text, label |-> label,
     text_should_be_updated |-> text_should_be_updated]

\* The variables after a call that leaves the Label as the record new_self.
LabelBecomes(new_self) ==
    /\ text' = new_self.text
    /\ current_text' = new_self.current_text
    /\ label' = new_self.label
    /\ text_should_be_updated' = new_self.text_should_be_updated

\* The inputs of the calls on a Label.
LabelEvents == {e \in Events : e.pos.y = 0}

LabelBoxConstraints == {bc \in BoxConstraintsSet : bc.min.width = 0}

LabelMetrics == {m \in Metrics : m.height = 1}

LabelSetText ==
    \E s \in Strings :
        /\ LabelBecomes(Label_set_text(LabelSelf, s))
        /\ ctx' = [CtxNone EXCEPT !.op = "Label::set_text", !.arg = <<s>>]
        /\ resolve_calls' = 0
        /\ notified' = "unnotified"
        /\ last_text' = s
        /\ UNCHANGED <<disabled_arg, last_color, idVars, hitVars, frame>>

LabelGetText ==
    /\ ctx' = [CtxNone EXCEPT !.op = "Label::text", !.ret = <<Label_text(LabelSelf)>>]
    /\ UNCHANGED <<adapterVars, label, disabled_arg, last_color, idVars, hitVars, frame>>

\* LabelText::resolve on the label's text source.
LabelTextResolve ==
    LET r == LabelText_resolve(text)
    IN  /\ resolve_calls < MaxResolveCalls
        /\ text' = r.self
        /\ resolve_calls' = resolve_calls + 1
        /\ ctx' = [CtxNone EXCEPT !.op = "LabelText::resolve", !.ret = <<r.ret>>]
        /\ UNCHANGED <<current_text, text_should_be_updated, notified, last_text, label,
                       disabled_arg, last_color, idVars, hitVars, frame>>

LabelOnEvent ==
    \E event \in LabelEvents :
        LET r == Label_on_event(LabelSelf, event)
        IN  /\ LabelBecomes(r.self)
            /\ ctx' = [CtxNone EXCEPT !.op = "Label::on_event", !.arg = <<event>>,
                                      !.cursor = r.cursor, !.commands = r.commands,
                                      !.panicked = r.panicked]
            /\ UNCHANGED <<resolve_calls, notified, last_text, disabled_arg, last_color, idVars, hitVars, frame>>

LabelLifecycle ==
    \E event \in LifeCycles :
        LET r == Label_lifecycle(LabelSelf, event)
        IN  /\ LabelBecomes(r.self)
            /\ ctx' = [CtxNone EXCEPT !.op = "Label::lifecycle", !.arg = <<event>>,
                                      !.request_layout = r.request_layout]
            /\ notified' = IF notified = "unnotified" THEN "notified" ELSE notified
            /\ disabled_arg' = IF event.kind = "DisabledChanged" THEN event.disabled
                               ELSE disabled_arg
            /\ UNCHANGED <<resolve_calls, last_text, last_color, idVars, hitVars, frame>>

LabelLayout ==
    \E bc \in LabelBoxConstraints : \E m \in LabelMetrics :
        LET r == Label_layout(LabelSelf, bc, m)
        IN  /\ LabelBecomes(r.self)
            /\ ctx' = [CtxNone EXCEPT !.op = "Label::layout", !.arg = <<bc>>,
                                      !.ret = <<r.size>>, !.baseline = <<r.baseline>>]
            /\ UNCHANGED <<resolve_calls, notified, last_text, disabled_arg, last_color, idVars, hitVars, frame>>

LabelPaint ==
    \E label_size \in PaintSizes :
        LET r == Label_paint(LabelSelf, label_size)
        IN  /\ ctx' = [CtxNone EXCEPT !.op = "Label::paint", !.arg = <<label_size>>,
                                      !.warned = r.warned, !.render = r.render]
            /\ UNCHANGED <<adapterVars, label, disabled_arg, last_color, idVars, hitVars, frame>>

LabelNext ==
    \/ LabelSetText
    \/ LabelGetText
    \/ LabelTextResolve
    \/ LabelOnEvent
    \/ LabelLifecycle
    \/ LabelLayout
    \/ LabelPaint

-----------------------------------------------------------------------------
(***************************************************************************)
(* Properties of the label.                                                *)
(***************************************************************************)

\* The indices of the operations of kind op in the sequence render.
OpsAt(render, op) == {i \in 1..Len(render) : render[i].op = op}

\* C3: on a LabelText built from a static string, the first resolve() returns
\* true and every later one returns false, and no call changes the stored
\* string.
C3_ResolveTrueOnlyFirst ==
    [][ctx'.op = "LabelText::resolve" =>
          /\ ctx'.ret = <<(resolve_calls' = 1)>>
          /\ text'.string = text.string]_vars

\* C3 witness: a third resolve() on the same LabelText has returned false.
C3_Witness ==
    /\ ctx.op = "LabelText::resolve"
    /\ resolve_calls >= 3
    /\ ctx.ret = <<FALSE>>

\* C5: a paint that follows set_text with no life cycle notification in
\* between logs the stale-text warning and still draws, once, the string the
\* label displayed before set_text (the one it was constructed with), which is
\* not the new one unless the two are equal.
C5_StalePaintWarnsAndDrawsOld ==
    (ctx.op = "Label::paint" /\ notified = "unnotified") =>
        /\ ctx.warned
        /\ Cardinality(OpsAt(ctx.render, "draw_text")) = 1
        /\ \A i \in OpsAt(ctx.render, "draw_text") :
              /\ ctx.render[i].text = current_text
              /\ text.string # current_text => ctx.render[i].text # text.string

\* C5 witness: such a paint after set_text to a different string.
C5_Witness ==
    /\ ctx.op = "Label::paint"
    /\ notified = "unnotified"
    /\ text.string # current_text
    /\ ctx.warned
    /\ Len(ctx.render) >= 1

\* C6: once a life cycle notification has been delivered after set_text, the
\* new string is in the inner RawLabel, the mark is cleared, and paint draws
\* the new string without the stale-text warning.
C6_NotificationPropagatesText ==
    notified = "notified" =>
        /\ ~text_should_be_updated
        /\ label.layout.text = LabelText_display_text(text)
        /\ ctx.op = "Label::paint" =>
              /\ ~ctx.warned
              /\ \A i \in OpsAt(ctx.render, "draw_text") :
                    ctx.render[i].text = LabelText_display_text(text)

\* C7: a MouseUp delivered to a RawLabel returns normally, submits no command
\* and leaves the label as it was, also over a link.
C7_MouseUpIsNoOp ==
    [][(ctx'.op = "RawLabel::on_event" /\ ctx'.arg[1].kind = "MouseUp") =>
          /\ ~ctx'.panicked
          /\ ctx'.commands = <<>>
          /\ ctx'.cursor = <<>>
          /\ label' = label]_vars

\* C8: in WordWrap mode layout sets the wrap width to W - 4, W the
\* constraint's max width, and the returned width is at most W.
C8_WordWrapWidth ==
    (ctx.op = "RawLabel::layout" /\ label.line_break_mode = "WordWrap") =>
        LET W == ctx.arg[1].max.width
        IN  /\ label.layout.wrap_width = (IF W = Infinity THEN Infinity ELSE W - 4)
            /\ ctx.ret[1].width <= W

\* C8 witness: a WordWrap layout under a finite max width that the padded
\* text exceeds.
C8_Witness ==
    /\ ctx.op = "RawLabel::layout"
    /\ label.line_break_mode = "WordWrap"
    /\ ctx.arg[1].max.width = 5
    /\ label.layout.wrap_width = 1
    /\ label.layout.metrics.width + 4 > 5
    /\ ctx.ret[1].width = 5

\* C9: in Clip and Overflow modes layout sets the wrap width to infinity; in
\* every mode it returns the measured text size, widened by 4, clamped to the
\* constraint, so the returned width and height lie between min and max.
C9_LayoutConstrained ==
    ctx.op = "RawLabel::layout" =>
        LET bc == ctx.arg[1]
            size == ctx.ret[1]
            m == label.layout.metrics
        IN  /\ label.line_break_mode \in {"Clip", "Overflow"} =>
                  label.layout.wrap_width = Infinity
            /\ size.width = FMin(FMax(m.width + 4, bc.min.width), bc.max.width)
            /\ size.height = FMin(FMax(m.height, bc.min.height), bc.max.height)
            /\ bc.min.width <= size.width /\ size.width <= bc.max.width
            /\ bc.min.height <= size.height /\ size.height <= bc.max.height

\* C9 witness: a Clip layout whose padded text is wider than the max width
\* and lower than the min height.
C9_Witness ==
    /\ ctx.op = "RawLabel::layout"
    /\ label.line_break_mode = "Clip"
    /\ label.layout.metrics.width + 4 > ctx.arg[1].max.width
    /\ label.layout.metrics.height < ctx.arg[1].min.height
    /\ ctx.ret[1] = [width |-> ctx.arg[1].max.width, height |-> ctx.arg[1].min.height]

\* C10: paint draws the text exactly once, at (2, 0); in Clip mode one clip
\* to the rectangle of the painted size comes before the draw; in the other
\* modes there is no clip.
C10_PaintClipsBeforeDraw ==
    ctx.op = "RawLabel::paint" =>
        LET draws == OpsAt(ctx.render, "draw_text")
            clips == OpsAt(ctx.render, "clip")
            size == ctx.arg[1]
        IN  /\ Cardinality(draws) = 1
            /\ \A i \in draws :
                  /\ ctx.render[i].origin = [x |-> 2, y |-> 0]
                  /\ ctx.render[i].text = label.layout.text
            /\ label.line_break_mode = "Clip" =>
                  /\ Cardinality(clips) = 1
                  /\ \A j \in clips :
                        /\ ctx.render[j].rect =
                              [x0 |-> 0, y0 |-> 0, x1 |-> size.width, y1 |-> size.height]
                        /\ \A i \in draws : j < i
            /\ label.line_break_mode # "Clip" => clips = {}

\* C10 witness: a paint in Clip mode.
C10_Witness ==
    /\ ctx.op = "RawLabel::paint"
    /\ label.line_break_mode = "Clip"
    /\ Len(ctx.render) = 2

\* C11: a MouseMove delivered to a RawLabel makes exactly one cursor call:
\* set_cursor(Pointer) if the position moved left by 2 (y unchanged) is over
\* a link of the text, clear_cursor if it is not; the label is left as it was
\* and no command is submitted.
C11_MouseMoveCursor ==
    [][(ctx'.op = "RawLabel::on_event" /\ ctx'.arg[1].kind = "MouseMove") =>
          LET p == ctx'.arg[1].pos
              over == [x |-> p.x - 2, y |-> p.y] \in TextLinks(label.layout.text)
          IN  /\ Len(ctx'.cursor) = 1
              /\ over => ctx'.cursor[1] = "set_cursor(Pointer)"
              /\ ~over => ctx'.cursor[1] = "clear_cursor"
              /\ ~ctx'.panicked
              /\ ctx'.commands = <<>>
              /\ label' = label]_vars

\* C11 witness: a MouseMove at x = 3, over the link's second unit once the
\* padding is taken off and past the link before it is, has set the cursor.
C11_Witness ==
    /\ ctx.op = "RawLabel::on_event"
    /\ ctx.arg[1].kind = "MouseMove"
    /\ ctx.arg[1].pos = [x |-> 3, y |-> 0]
    /\ TextLinks(label.layout.text) # {}
    /\ ctx.cursor = <<"set_cursor(Pointer)">>

\* A MouseMove at x = 1, over the link only if the padding is ignored, has
\* cleared the cursor.
C11_WitnessCleared ==
    /\ ctx.op = "RawLabel::on_event"
    /\ ctx.arg[1].kind = "MouseMove"
    /\ ctx.arg[1].pos = [x |-> 1, y |-> 0]
    /\ TextLinks(label.layout.text) # {}
    /\ ctx.cursor = <<"clear_cursor">>

C12_WitnessGetter ==
    /\ ctx.op = "RawLabel::baseline_offset"
    /\ ctx.ret = <<1>>

C14_TextReturnsStored ==
    ctx.op = "Label::text" =>
        /\ ctx.ret = <<last_text>>
        /\ label.layout.text = current_text

\* C14 witness: text() right after set_text(t), t not the string on display,
\* with no notification in between, has returned t.
C14_Witness ==
    /\ ctx.op = "Label::text"
    /\ notified = "unnotified"
    /\ last_text # label.layout.text
    /\ ctx.ret = <<last_text>>

\* C15: RawLabel::lifecycle on DisabledChanged(true) sets the layout's colour
\* to the theme's disabled text colour, on DisabledChanged(false) to the
\* colour last passed to set_text_color (the theme's text colour if none was),
\* and requests layout once in both cases; on any other event it leaves the
\* label as it was and requests nothing.
C15_DisabledChangedColor ==
    [][ctx'.op = "RawLabel::lifecycle" =>
          LET event == ctx'.arg[1]
          IN  IF event.kind = "DisabledChanged"
              THEN /\ label'.layout.text_color =
                         (IF event.disabled THEN "DISABLED_TEXT_COLOR" ELSE last_color)
                   /\ ctx'.request_layout = 1
              ELSE /\ label' = label
                   /\ ctx'.request_layout = 0]_vars

\* C15 witness: DisabledChanged(false) has restored a colour that
\* set_text_color was given.
C15_Witness ==
    /\ ctx.op = "RawLabel::lifecycle"
    /\ ctx.arg[1] = [kind |-> "DisabledChanged", disabled |-> FALSE]
    /\ last_color \in UserColors
    /\ label.layout.text_color = last_color
    /\ ctx.request_layout = 1

\* DisabledChanged(true) has set the disabled colour on a label that was
\* given a colour.
C15_WitnessDisabled ==
    /\ ctx.op = "RawLabel::lifecycle"
    /\ ctx.arg[1] = [kind |-> "DisabledChanged", disabled |-> TRUE]
    /\ last_color \in UserColors
    /\ label.layout.text_color = "DISABLED_TEXT_COLOR"

\* C16: while a RawLabel is disabled, from DisabledChanged(true) to the next
\* DisabledChanged(false), the layout's colour stays the disabled text colour
\* whatever set_text_color is given, and the remembered default colour is the
\* last colour given.
C16_DisabledColorKept ==
    /\ disabled_arg => label.layout.text_color = "DISABLED_TEXT_COLOR"
    /\ label.default_text_color = last_color

\* C17: as long as set_text has not been called on a Label, the stale-text
\* mark is false, the inner RawLabel holds the display text of the label's
\* text source, and paint logs no stale-text warning; and the only call that
\* turns the mark from false to true is set_text.
C17_MarkOnlyAfterSetText ==
    /\ [](notified = "never" =>
            /\ ~text_should_be_updated
            /\ label.layout.text = LabelText_display_text(text)
            /\ ctx.op = "Label::paint" => ~ctx.warned)
    /\ [][(~text_should_be_updated /\ text_should_be_updated') =>
             ctx'.op = "Label::set_text"]_vars

\* C17 witness: a label on which set_text was never called has been painted,
\* after other calls, without the warning.
C17_Witness ==
    /\ ctx.op = "Label::paint"
    /\ notified = "never"
    /\ resolve_calls > 0
    /\ label.layout.metrics.height > 0
    /\ ~ctx.warned
    /\ Len(ctx.render) >= 1

\* C18: Label::on_event leaves the Label and its inner RawLabel as they were
\* and asks nothing of its context (no cursor call, no command, no panic)
\* for every event, also a pointer move or release over a link; lifecycle,
\* layout and paint on a Label reach the inner RawLabel: DisabledChanged sets
\* its layout's colour and requests layout, layout measures its text and
\* returns the padded, constrained size, paint draws its text at (2, 0).
C18_LabelIgnoresEvents ==
    [][/\ ctx'.op = "Label::on_event" =>
             /\ <<text', current_text', label', text_should_be_updated'>> =
                    <<text, current_text, label, text_should_be_updated>>
             /\ ctx'.cursor = <<>>
             /\ ctx'.commands = <<>>
             /\ ~ctx'.panicked
       /\ (ctx'.op = "Label::lifecycle" /\ ctx'.arg[1].kind = "DisabledChanged") =>
             /\ label'.layout.text_color =
                    (IF ctx'.arg[1].disabled THEN "DISABLED_TEXT_COLOR"
                     ELSE label.default_text_color)
             /\ ctx'.request_layout = 1
       /\ ctx'.op = "Label::layout" =>
             /\ label'.layout.metrics.height > 0
             /\ ctx'.baseline =
                    <<label'.layout.metrics.height - label'.layout.metrics.first_baseline>>
             /\ ctx'.ret[1].width =
                    FMin(FMax(label'.layout.metrics.width + 4, ctx'.arg[1].min.width),
                         ctx'.arg[1].max.width)
       /\ ctx'.op = "Label::paint" =>
             \E i \in OpsAt(ctx'.render, "draw_text") :
                 /\ ctx'.render[i].text = label.layout.text
                 /\ ctx'.render[i].origin = [x |-> 2, y |-> 0]]_vars

\* C18 witness: a pointer move over the link of the label's text has been
\* given to Label::on_event, which made no cursor call.
C18_Witness ==
    /\ ctx.op = "Label::on_event"
    /\ ctx.arg[1].kind = "MouseMove"
    /\ [x |-> ctx.arg[1].pos.x - 2, y |-> ctx.arg[1].pos.y] \in TextLinks(label.layout.text)
    /\ ctx.cursor = <<>>

\* The same for a pointer release over the link.
C18_WitnessMouseUp ==
    /\ ctx.op = "Label::on_event"
    /\ ctx.arg[1].kind = "MouseUp"
    /\ [x |-> ctx.arg[1].pos.x - 2, y |-> ctx.arg[1].pos.y] \in TextLinks(label.layout.text)
    /\ ~ctx.panicked

-----------------------------------------------------------------------------
(***************************************************************************)
(* The specifications.                                                     *)
(***************************************************************************)

\* The allocator: the process has issued some number of ids already.
IdInit ==
    /\ WIDGET_ID_COUNTER \in StartCounters
    /\ issued = <<>>
    /\ reserved_ids = {}
    /\ widgets = NoTree
    /\ hit = HitNone
    /\ label = RawLabel_new
    /\ text = Static_new("")
    /\ current_text = ""
    /\ text_should_be_updated = FALSE
    /\ last_text = ""
    /\ resolve_calls = 0
    /\ notified = "never"
    /\ ctx = CtxNone
    /\ disabled_arg = FALSE
    /\ last_color = "TEXT_COLOR"
    /\ frame = FrameNone

SpecIds == IdInit /\ [][IdNext]_vars

\* Hit testing: a tree whose widgets have not been laid out yet.
HitInit ==
    /\ WIDGET_ID_COUNTER = Counter_new
    /\ issued = <<>>
    /\ reserved_ids = {}
    /\ widgets \in Trees
    /\ hit = HitNone
    /\ label = RawLabel_new
    /\ text = Static_new("")
    /\ current_text = ""
    /\ text_should_be_updated = FALSE
    /\ last_text = ""
    /\ resolve_calls = 0
    /\ notified = "never"
    /\ ctx = CtxNone
    /\ disabled_arg = FALSE
    /\ last_color = "TEXT_COLOR"
    /\ frame = FrameNone

SpecHit == HitInit /\ [][HitNext]_vars

\* A RawLabel on its own: RawLabel::new(), then set_text and
\* with_line_break_mode.
RawInit ==
    /\ WIDGET_ID_COUNTER = Counter_new
    /\ issued = <<>>
    /\ reserved_ids = {}
    /\ widgets = NoTree
    /\ hit = HitNone
    /\ \E s \in Strings : \E mode \in LineBreakings :
          label = RawLabel_set_line_break_mode(RawLabel_set_text(RawLabel_new, s), mode)
    /\ text = Static_new("")
    /\ current_text = ""
    /\ text_should_be_updated = FALSE
    /\ last_text = ""
    /\ resolve_calls = 0
    /\ notified = "never"
    /\ ctx = CtxNone
    /\ disabled_arg = FALSE
    /\ last_color = "TEXT_COLOR"
    /\ frame = FrameNone

\* A Label: Label::new(s), then with_line_break_mode.
Init ==
    /\ WIDGET_ID_COUNTER = Counter_new
    /\ issued = <<>>
    /\ reserved_ids = {}
    /\ widgets = NoTree
    /\ hit = HitNone
    /\ \E s \in Strings : \E mode \in LineBreakings :
          LET self == Label_with_line_break_mode(Label_new(s), mode)
          IN  /\ text = self.text
              /\ current_text = self.current_text
              /\ label = self.label
              /\ text_should_be_updated = self.text_should_be_updated
              /\ last_text = s
    /\ resolve_calls = 0
    /\ notified = "never"
    /\ ctx = CtxNone
    /\ disabled_arg = FALSE
    /\ last_color = "TEXT_COLOR"
    /\ frame = FrameNone

Spec == Init /\ [][LabelNext]_vars

SpecRaw == RawInit /\ [][RawNext]_vars

\* A RawLabel in a pod that has just been given it.
FrameInit ==
    /\ WIDGET_ID_COUNTER = Counter_new
    /\ issued = <<>>
    /\ reserved_ids = {}
    /\ widgets = NoTree
    /\ hit = HitNone
    /\ \E s \in Strings : \E mode \in LineBreakings :
          label = RawLabel_set_line_break_mode(RawLabel_set_text(RawLabel_new, s), mode)
    /\ text = Static_new("")
    /\ current_text = ""
    /\ text_should_be_updated = FALSE
    /\ last_text = ""
    /\ resolve_calls = 0
    /\ notified = "never"
    /\ ctx = CtxNone
    /\ disabled_arg = FALSE
    /\ last_color = "TEXT_COLOR"
    /\ frame = Pod_new

SpecFrame == FrameInit /\ [][FrameNext]_vars

SpecRawLayout == RawInit /\ [][RawLayoutNext]_vars

=============================================================================
